---- MODULE Spec2Model ----
(***************************************************************************)
(* A model of the Ollama-to-OpenRouter proxy: the streaming handlers of    *)
(* POST /api/generate and POST /api/chat (main.go) and the model catalog   *)
(* of OpenrouterProvider (GetModels, GetFullModelName).                    *)
(*                                                                         *)
(* Six specifications share the variables:                                 *)
(*   Spec         one streaming request, step by step: resolving the       *)
(*                model name, opening the stream, Recv, write, flush       *)
(*   SpecCatalog  two requests running GetModels / GetFullModelName        *)
(*                concurrently on the shared o.modelNames                  *)
(*   SpecResolve  GetFullModelName and GetModels called one at a time on   *)
(*                catalogs drawn from a bounded set of identifiers         *)
(*   SpecRequest  the handlers of /api/tags, /api/show, /api/generate and  *)
(*                /api/chat up to the start of streaming, one request at   *)
(*                a time, each as one step                                 *)
(*   SpecMetadata the size class and family GetModels and GetModelDetails  *)
(*                derive for identifiers built from the tested patterns    *)
(*   SpecRefresh  one streaming request while a concurrent GET /api/tags   *)
(*                replaces the catalog snapshot                            *)
(*                                                                         *)
(* Not modelled: the created_at timestamps (time.Now), the HTTP headers,   *)
(* the json.Marshal error branches (Marshal cannot fail on the maps of     *)
(* strings, booleans and integers the handlers build) and the              *)
(* "not an http.Flusher" branch (gin's ResponseWriter is one).             *)
(***************************************************************************)
EXTENDS Integers, Sequences, FiniteSets, TLC

VARIABLES
    \* ---- one streaming request (main.go) ----
    endpoint,          \* "generate" | "chat": the route being served
    pc,                \* position of the handler
    fullModelName,     \* the resolved model name the handler uses
    received,          \* backend responses stream.Recv has returned so far
    response,          \* the response being processed (loop variable)
    err,               \* what the last stream.Recv returned: "nil" | "EOF" | "error"
    lastFinishReason,  \* var lastFinishReason string
    written,           \* lines passed to fmt.Fprintf(w, ...), in order
    flushed,           \* how many of them flusher.Flush() has been called for
    clientGot,         \* lines that reached the client
    connected,         \* the client connection is still up
    streamOpen,        \* the backend stream handle is open
    status,            \* HTTP status of the response (0: none sent)
    body,              \* what c.JSON(status, ...) sent as the response body
    \* ---- the catalog (OpenrouterProvider) ----
    modelNames,        \* o.modelNames
    upstream,          \* what the backend's ListModels currently returns
    proc,              \* per concurrent request: its position and locals
    call               \* the request being served / the last call and its result

streamVars == <<endpoint, pc, fullModelName, received, response, err,
                lastFinishReason, written, flushed, clientGot, connected,
                streamOpen, status, body>>
catalogVars == <<modelNames, upstream, proc, call>>
vars == <<endpoint, pc, fullModelName, received, response, err,
          lastFinishReason, written, flushed, clientGot, connected,
          streamOpen, status, body, modelNames, upstream, proc, call>>

(***************************************************************************)
(* Bounds                                                                  *)
(***************************************************************************)
\* backend responses one stream delivers before it must end
MaxEvents == 3

(***************************************************************************)
(* Backend stream responses (openai.ChatCompletionStreamResponse)          *)
(***************************************************************************)
Contents == {"", "a", "b"}
FinishReasons == {"", "stop", "length"}
Choice(content, finish) == [delta |-> content, finish |-> finish]
\* a response carries a list of choices, which may be empty
StreamResponses ==
    {[choices |-> <<>>]} \cup
    {[choices |-> <<Choice(c, f)>>] : c \in Contents, f \in FinishReasons}
NoResponse == [choices |-> <<>>]

(***************************************************************************)
(* The JSON objects the handlers write (one per line)                      *)
(***************************************************************************)
GenerateChunk(model, content) ==
    [model |-> model, response |-> content, done |-> FALSE]
ChatChunk(model, content) ==
    [model |-> model,
     message |-> [role |-> "assistant", content |-> content],
     done |-> FALSE]
GenerateFinal(model, reason) ==
    [model |-> model, response |-> "", done |-> TRUE,
     context |-> <<1, 2, 3>>,
     total_duration |-> 0, load_duration |-> 0, prompt_eval_count |-> 0,
     prompt_eval_duration |-> 0, eval_count |-> 0, eval_duration |-> 0]
ChatFinal(model, reason) ==
    [model |-> model,
     message |-> [role |-> "assistant", content |-> ""],
     done |-> TRUE, finish_reason |-> reason,
     total_duration |-> 0, load_duration |-> 0, prompt_eval_count |-> 0,
     eval_count |-> 0, eval_duration |-> 0]
ErrorLine == [error |-> "Stream error"]
\* gin.H{"error": ...} of a c.JSON answer, and no answer sent by c.JSON
ErrorBody(msg) == [error |-> msg]
NoBody == [none |-> TRUE]

ChunkJSON(ep, model, content) ==
    IF ep = "generate" THEN GenerateChunk(model, content)
                       ELSE ChatChunk(model, content)
FinalJSON(ep, model, reason) ==
    IF ep = "generate" THEN GenerateFinal(model, reason)
                       ELSE ChatFinal(model, reason)

\* reading the lines back
IsTerminal(line) == "done" \in DOMAIN line /\ line.done = TRUE
IsNonTerminal(line) == "done" \in DOMAIN line /\ line.done = FALSE
IsErrorLine(line) == "error" \in DOMAIN line
TextOf(line) ==
    IF "message" \in DOMAIN line THEN line.message.content ELSE line.response
HasFinishReason(line) == "finish_reason" \in DOMAIN line

(***************************************************************************)
(* Steps of the streaming loop                                             *)
(***************************************************************************)
\* if len(response.Choices) > 0 && response.Choices[0].FinishReason != ""
NextFinishReason(last, resp) ==
    IF Len(resp.choices) > 0 /\ resp.choices[1].finish # ""
    THEN resp.choices[1].finish
    ELSE last

\* if lastFinishReason == "" { lastFinishReason = "stop" }
DefaultFinishReason(last) == IF last = "" THEN "stop" ELSE last

\* a loop that writes a chunk only for a non-empty text delta
WriteChunkSkipEmpty(lines, ep, model, resp) ==
    IF resp.choices[1].delta = "" THEN lines
    ELSE Append(lines, ChunkJSON(ep, model, resp.choices[1].delta))

\* a loop that puts the newest chunk in front of the earlier ones
WriteChunkFront(lines, ep, model, resp) ==
    <<ChunkJSON(ep, model, resp.choices[1].delta)>> \o lines

\* a loop that looks the model name up again for every chunk
WriteChunkReResolve(lines, ep, model, resp) ==
    Append(lines,
           ChunkJSON(ep,
                     IF Len(modelNames) = 0 THEN model
                     ELSE IF \E k \in 1..Len(modelNames) :
                                modelNames[k] = model
                     THEN model
                     ELSE modelNames[1],
                     resp.choices[1].delta))

\* fmt.Fprintf(w, "%s\n", string(jsonData)) of an intermediate chunk
WriteChunk(lines, ep, model, resp) ==
    Append(lines, ChunkJSON(ep, model, resp.choices[1].delta))

\* what a Flush sends: the lines written since the last Flush, if the
\* connection is up; a failed write or flush is not reported to the handler
Deliver(got, lines, upTo, up) ==
    IF up THEN got \o SubSeq(lines, upTo + 1, Len(lines)) ELSE got

Running == pc \in {"recv", "process", "write", "flush", "final",
                   "finalflush", "errwrite", "errflush"}

\* an open that reports its failure as a line of the stream
OpenStreamErrorInBand ==
    /\ pc = "open"
    /\ \/ /\ pc' = "recv"
          /\ streamOpen' = TRUE
          /\ status' = 200
          /\ UNCHANGED <<body, written>>
       \/ /\ pc' = "failed"
          /\ status' = 200
          /\ written' = Append(written, ErrorLine)
          /\ UNCHANGED <<streamOpen, body>>
    /\ UNCHANGED <<catalogVars, err, endpoint, fullModelName, received,
                   response, lastFinishReason, flushed, clientGot, connected>>

\* stream, err := provider.ChatStream(messages, fullModelName); on an error
\* c.JSON(http.StatusInternalServerError, gin.H{"error": err.Error()})
OpenStream ==
    /\ pc = "open"
    /\ \/ /\ pc' = "recv"
          /\ streamOpen' = TRUE
          /\ status' = 200
          /\ UNCHANGED body
       \/ /\ pc' = "failed"
          /\ status' = 500
          /\ body' = ErrorBody("chat")
          /\ UNCHANGED streamOpen
    /\ UNCHANGED <<catalogVars, err, endpoint, fullModelName, received,
                   response, lastFinishReason, written, flushed, clientGot,
                   connected>>

\* response, err := stream.Recv() returned a response
RecvResponse ==
    /\ pc = "recv"
    /\ Len(received) < MaxEvents
    /\ \E r \in StreamResponses :
          /\ response' = r
          /\ received' = Append(received, r)
    /\ err' = "nil"
    /\ pc' = "process"
    /\ UNCHANGED <<catalogVars, body, endpoint, fullModelName,
                   lastFinishReason, written,
                   flushed, clientGot, connected, streamOpen, status>>

\* errors.Is(err, io.EOF): break
RecvEOF ==
    /\ pc = "recv"
    /\ err' = "EOF"
    /\ pc' = "final"
    /\ UNCHANGED <<catalogVars, body, endpoint, fullModelName, received, response,
                   lastFinishReason, written, flushed, clientGot, connected,
                   streamOpen, status>>

\* an error branch that leaves the loop like io.EOF does
AfterRecvErrorBreak == "final"

\* where the handler goes when Recv returns another error
AfterRecvError == "errwrite"

\* err != nil
RecvError ==
    /\ pc = "recv"
    /\ err' = "error"
    /\ pc' = AfterRecvError
    /\ UNCHANGED <<catalogVars, body, endpoint, fullModelName, received, response,
                   lastFinishReason, written, flushed, clientGot, connected,
                   streamOpen, status>>

\* the finish-reason test, then building responseJSON, which indexes
\* response.Choices[0] unguarded: an empty list panics, gin recovers, and
\* the deferred stream.Close() runs
Process ==
    /\ pc = "process"
    /\ lastFinishReason' = NextFinishReason(lastFinishReason, response)
    /\ IF Len(response.choices) = 0
       THEN /\ pc' = "panicked"
            /\ streamOpen' = FALSE
       ELSE /\ pc' = "write"
            /\ UNCHANGED streamOpen
    /\ UNCHANGED <<catalogVars, body, err, endpoint, fullModelName, received, response, written,
                   flushed, clientGot, connected, status>>

WriteIntermediate ==
    /\ pc = "write"
    /\ written' = WriteChunk(written, endpoint, fullModelName, response)
    /\ pc' = "flush"
    /\ UNCHANGED <<catalogVars, body, err, endpoint, fullModelName, received, response,
                   lastFinishReason, flushed, clientGot, connected,
                   streamOpen, status>>

FlushIntermediate ==
    /\ pc = "flush"
    /\ clientGot' = Deliver(clientGot, written, flushed, connected)
    /\ flushed' = Len(written)
    /\ pc' = "recv"
    /\ UNCHANGED <<catalogVars, body, err, endpoint, fullModelName, received, response,
                   lastFinishReason, written, connected, streamOpen, status>>

\* the error line of the err != nil branch
WriteError ==
    /\ pc = "errwrite"
    /\ written' = Append(written, ErrorLine)
    /\ pc' = "errflush"
    /\ UNCHANGED <<catalogVars, body, err, endpoint, fullModelName, received, response,
                   lastFinishReason, flushed, clientGot, connected,
                   streamOpen, status>>

\* an error branch whose return is missing: it falls out of the loop
FlushErrorNoReturn ==
    /\ pc = "errflush"
    /\ clientGot' = Deliver(clientGot, written, flushed, connected)
    /\ flushed' = Len(written)
    /\ pc' = "final"
    /\ UNCHANGED <<catalogVars, body, err, endpoint, fullModelName, received,
                   response, lastFinishReason, written, connected,
                   streamOpen, status>>

\* flusher.Flush(); return (the deferred stream.Close() runs)
FlushError ==
    /\ pc = "errflush"
    /\ clientGot' = Deliver(clientGot, written, flushed, connected)
    /\ flushed' = Len(written)
    /\ pc' = "aborted"
    /\ streamOpen' = FALSE
    /\ UNCHANGED <<catalogVars, body, err, endpoint, fullModelName, received, response,
                   lastFinishReason, written, connected, status>>

\* after the loop: default the finish reason, write finalResponse
WriteFinal ==
    /\ pc = "final"
    /\ lastFinishReason' = DefaultFinishReason(lastFinishReason)
    /\ written' = Append(written,
                         FinalJSON(endpoint, fullModelName,
                                   DefaultFinishReason(lastFinishReason)))
    /\ pc' = "finalflush"
    /\ UNCHANGED <<catalogVars, body, err, endpoint, fullModelName, received, response, flushed,
                   clientGot, connected, streamOpen, status>>

\* a return after the final flush without the deferred stream.Close()
FlushFinalKeepOpen ==
    /\ pc = "finalflush"
    /\ clientGot' = Deliver(clientGot, written, flushed, connected)
    /\ flushed' = Len(written)
    /\ pc' = "done"
    /\ UNCHANGED <<catalogVars, body, err, endpoint, fullModelName, received,
                   response, lastFinishReason, written, connected,
                   streamOpen, status>>

\* flusher.Flush() and the handler returns (the deferred stream.Close() runs)
FlushFinal ==
    /\ pc = "finalflush"
    /\ clientGot' = Deliver(clientGot, written, flushed, connected)
    /\ flushed' = Len(written)
    /\ pc' = "done"
    /\ streamOpen' = FALSE
    /\ UNCHANGED <<catalogVars, body, err, endpoint, fullModelName, received, response,
                   lastFinishReason, written, connected, status>>

\* the client goes away while the handler is streaming
ClientDisconnect ==
    /\ Running
    /\ connected
    /\ connected' = FALSE
    /\ UNCHANGED <<catalogVars, body, err, endpoint, pc, fullModelName, received, response,
                   lastFinishReason, written, flushed, clientGot,
                   streamOpen, status>>

(***************************************************************************)
(* The model catalog (OpenrouterProvider)                                  *)
(*                                                                         *)
(* A model identifier is a sequence of characters, so that the suffix test *)
(* of GetFullModelName is computed and not assumed.                        *)
(***************************************************************************)
\* longest identifier and longest catalog drawn in SpecResolve
MaxIdLen == 2
MaxCatalogLen == 2
\* calls each concurrent request worker makes in SpecCatalog
MaxCalls == 2

Chars == {"a", "/"}
SeqsUpTo(S, n) == UNION {[1..k -> S] : k \in 0..n}
Ids == SeqsUpTo(Chars, MaxIdLen)
Catalogs == SeqsUpTo(Ids, MaxCatalogLen)

\* strings.HasSuffix(s, suffix)
HasSuffix(s, suffix) ==
    /\ Len(suffix) <= Len(s)
    /\ SubSeq(s, Len(s) - Len(suffix) + 1, Len(s)) = suffix

NotFound == [found |-> FALSE, name |-> <<>>]
Found(name) == [found |-> TRUE, name |-> name]

\* for _, fullName := range names { if fullName == alias { return fullName } }
RECURSIVE ExactFrom(_, _, _)
ExactFrom(names, alias, i) ==
    IF i > Len(names) THEN NotFound
    ELSE IF names[i] = alias THEN Found(names[i])
    ELSE ExactFrom(names, alias, i + 1)

\* for _, fullName := range names { if strings.HasSuffix(fullName, alias) ... }
RECURSIVE SuffixFrom(_, _, _)
SuffixFrom(names, alias, i) ==
    IF i > Len(names) THEN NotFound
    ELSE IF HasSuffix(names[i], alias) THEN Found(names[i])
    ELSE SuffixFrom(names, alias, i + 1)

\* a lookup that tries the suffix loop only
MatchSuffixOnly(names, alias) ==
    IF SuffixFrom(names, alias, 1).found
    THEN SuffixFrom(names, alias, 1).name
    ELSE alias

\* a lookup that tries the exact loop only
MatchExactOnly(names, alias) ==
    IF ExactFrom(names, alias, 1).found
    THEN ExactFrom(names, alias, 1).name
    ELSE alias

\* a lookup that returns the empty name when nothing matches
MatchOrEmpty(names, alias) ==
    IF ExactFrom(names, alias, 1).found
    THEN ExactFrom(names, alias, 1).name
    ELSE IF SuffixFrom(names, alias, 1).found
    THEN SuffixFrom(names, alias, 1).name
    ELSE <<>>

\* a suffix loop that keeps the last entry that matches
RECURSIVE LastSuffixFrom(_, _, _)
LastSuffixFrom(names, alias, i) ==
    IF i < 1 THEN NotFound
    ELSE IF HasSuffix(names[i], alias) THEN Found(names[i])
    ELSE LastSuffixFrom(names, alias, i - 1)

\* a lookup whose suffix match is the last one in snapshot order
MatchLastSuffix(names, alias) ==
    IF ExactFrom(names, alias, 1).found
    THEN ExactFrom(names, alias, 1).name
    ELSE IF LastSuffixFrom(names, alias, Len(names)).found
    THEN LastSuffixFrom(names, alias, Len(names)).name
    ELSE alias

\* a lookup that puts a slash in front of an alias it cannot match
MatchOrPrefixed(names, alias) ==
    IF ExactFrom(names, alias, 1).found
    THEN ExactFrom(names, alias, 1).name
    ELSE IF SuffixFrom(names, alias, 1).found
    THEN SuffixFrom(names, alias, 1).name
    ELSE <<"/">> \o alias

\* the two loops of GetFullModelName and its pass-through, on one list
MatchName(names, alias) ==
    IF ExactFrom(names, alias, 1).found
    THEN ExactFrom(names, alias, 1).name
    ELSE IF SuffixFrom(names, alias, 1).found
    THEN SuffixFrom(names, alias, 1).name
    ELSE alias

\* o.modelNames = []string{}, then one append per model of the response
RECURSIVE StoreFrom(_, _, _)
StoreFrom(names, models, i) ==
    IF i > Len(models) THEN names
    ELSE StoreFrom(Append(names, models[i]), models, i + 1)
StoreNames(models) == StoreFrom(<<>>, models, 1)

(***************************************************************************)
(* SpecResolve: the provider called by one request at a time               *)
(***************************************************************************)
NoCall == [op |-> "none", alias |-> <<>>, name |-> <<>>, err |-> FALSE]

\* GET /api/tags: provider.GetModels()
CallGetModels ==
    /\ \/ /\ modelNames' = StoreNames(upstream)
          /\ call' = [op |-> "GetModels", alias |-> <<>>, name |-> <<>>,
                      err |-> FALSE]
       \/ /\ call' = [op |-> "GetModels", alias |-> <<>>, name |-> <<>>,
                      err |-> TRUE]
          /\ UNCHANGED modelNames
    /\ UNCHANGED <<streamVars, upstream, proc>>

\* provider.GetFullModelName(alias)
CallGetFullModelName ==
    /\ \E alias \in Ids :
          IF Len(modelNames) = 0
          THEN \/ /\ modelNames' = StoreNames(upstream)
                  /\ call' = [op |-> "GetFullModelName", alias |-> alias,
                              name |-> MatchName(StoreNames(upstream), alias),
                              err |-> FALSE]
               \/ /\ call' = [op |-> "GetFullModelName", alias |-> alias,
                              name |-> <<>>, err |-> TRUE]
                  /\ UNCHANGED modelNames
          ELSE /\ call' = [op |-> "GetFullModelName", alias |-> alias,
                           name |-> MatchName(modelNames, alias),
                           err |-> FALSE]
               /\ UNCHANGED modelNames
    /\ UNCHANGED <<streamVars, upstream, proc>>

StreamIdle ==
    /\ endpoint = "chat"
    /\ pc = "idle"
    /\ fullModelName = <<>>
    /\ received = <<>>
    /\ response = NoResponse
    /\ err = "nil"
    /\ lastFinishReason = ""
    /\ written = <<>>
    /\ flushed = 0
    /\ clientGot = <<>>
    /\ connected = TRUE
    /\ streamOpen = FALSE
    /\ status = 0
    /\ body = NoBody

ResolveInit ==
    /\ StreamIdle
    /\ modelNames = <<>>
    /\ upstream \in Catalogs
    /\ proc = <<>>
    /\ call = NoCall

ResolveNext ==
    \/ CallGetModels
    \/ CallGetFullModelName

SpecResolve == ResolveInit /\ [][ResolveNext]_vars

(***************************************************************************)
(* SpecCatalog: two request workers on the shared o.modelNames             *)
(*                                                                         *)
(* gin serves every request on a goroutine of its own and the provider     *)
(* takes no lock, so the statements of GetModels and GetFullModelName      *)
(* interleave.  A step is one read or one write of o.modelNames: the       *)
(* append of line 128 reads the slice and then stores the grown slice, and *)
(* a range loop reads the slice once, when it starts.                      *)
(***************************************************************************)
Procs == {"w1", "w2"}

XA == <<"x", "/", "a">>
YB == <<"y", "/", "b">>
\* what the backend's model list may hold at the time of a fetch
UpstreamCatalogs == {<<XA, YB>>, <<YB, XA>>}
\* the aliases requests ask for: a suffix of an entry of every catalog and
\* a full identifier of every catalog
Aliases == {<<"a">>, YB}

ProcIdle ==
    [pc |-> "idle", op |-> "none", alias |-> <<>>, resp |-> <<>>, i |-> 0,
     tmp |-> <<>>, seen |-> <<>>, name |-> <<>>, err |-> FALSE, calls |-> 0]

\* where GetModels returns to: the loops of GetFullModelName, or the caller
AfterGetModels(p) == IF proc[p].op = "resolve" THEN "exact" ELSE "done"

\* GET /api/tags arrives: provider.GetModels()
StartGetModels(p) ==
    /\ proc[p].pc \in {"idle", "done"}
    /\ proc[p].calls < MaxCalls
    /\ proc' = [proc EXCEPT ![p] =
                  [ProcIdle EXCEPT !.pc = "list", !.op = "tags",
                                   !.calls = proc[p].calls + 1]]
    /\ UNCHANGED <<streamVars, modelNames, upstream, call>>

\* a request that names a model arrives: provider.GetFullModelName(alias)
StartGetFullModelName(p) ==
    /\ proc[p].pc \in {"idle", "done"}
    /\ proc[p].calls < MaxCalls
    /\ \E alias \in Aliases :
          proc' = [proc EXCEPT ![p] =
                     [ProcIdle EXCEPT !.pc = "check", !.op = "resolve",
                                      !.alias = alias,
                                      !.calls = proc[p].calls + 1]]
    /\ UNCHANGED <<streamVars, modelNames, upstream, call>>

\* if len(o.modelNames) == 0 { _, err := o.GetModels() ... }
CheckEmpty(p) ==
    /\ proc[p].pc = "check"
    /\ proc' = [proc EXCEPT ![p].pc =
                  IF Len(modelNames) = 0 THEN "list" ELSE "exact"]
    /\ UNCHANGED <<streamVars, modelNames, upstream, call>>

\* modelsResponse, err := o.client.ListModels(...); if err != nil { return }
ListModels(p) ==
    /\ proc[p].pc = "list"
    /\ \/ \E c \in UpstreamCatalogs :
             proc' = [proc EXCEPT ![p].resp = c, ![p].pc = "clear"]
       \/ proc' = [proc EXCEPT ![p].err = TRUE, ![p].pc = "done"]
    /\ UNCHANGED <<streamVars, modelNames, upstream, call>>

\* o.modelNames = []string{}
ClearNames(p) ==
    /\ proc[p].pc = "clear"
    /\ modelNames' = <<>>
    /\ proc' = [proc EXCEPT ![p].i = 1,
                            ![p].pc = IF Len(proc[p].resp) = 0
                                      THEN AfterGetModels(p)
                                      ELSE "appendRead"]
    /\ UNCHANGED <<streamVars, upstream, call>>

\* append(o.modelNames, apiModel.ID): the read of o.modelNames
AppendRead(p) ==
    /\ proc[p].pc = "appendRead"
    /\ proc' = [proc EXCEPT ![p].tmp = modelNames, ![p].pc = "appendWrite"]
    /\ UNCHANGED <<streamVars, modelNames, upstream, call>>

\* o.modelNames = append(...): the store of the grown slice
AppendWrite(p) ==
    /\ proc[p].pc = "appendWrite"
    /\ modelNames' = Append(proc[p].tmp, proc[p].resp[proc[p].i])
    /\ proc' = [proc EXCEPT ![p].i = proc[p].i + 1,
                            ![p].pc = IF proc[p].i + 1 > Len(proc[p].resp)
                                      THEN AfterGetModels(p)
                                      ELSE "appendRead"]
    /\ UNCHANGED <<streamVars, upstream, call>>

\* the exact-match loop, over the slice it reads when it starts
ExactLoop(p) ==
    /\ proc[p].pc = "exact"
    /\ LET r == ExactFrom(modelNames, proc[p].alias, 1) IN
       proc' = [proc EXCEPT ![p].seen = Append(proc[p].seen, modelNames),
                            ![p].name = r.name,
                            ![p].pc = IF r.found THEN "done" ELSE "suffix"]
    /\ UNCHANGED <<streamVars, modelNames, upstream, call>>

\* the suffix-match loop, and the pass-through return after it
SuffixLoop(p) ==
    /\ proc[p].pc = "suffix"
    /\ LET r == SuffixFrom(modelNames, proc[p].alias, 1) IN
       proc' = [proc EXCEPT ![p].seen = Append(proc[p].seen, modelNames),
                            ![p].name = IF r.found THEN r.name
                                        ELSE proc[p].alias,
                            ![p].pc = "done"]
    /\ UNCHANGED <<streamVars, modelNames, upstream, call>>

CatalogInit ==
    /\ StreamIdle
    /\ modelNames = <<>>
    /\ upstream = <<>>
    /\ proc = [p \in Procs |-> ProcIdle]
    /\ call = NoCall

CatalogNext ==
    \E p \in Procs :
        \/ StartGetModels(p)
        \/ StartGetFullModelName(p)
        \/ CheckEmpty(p)
        \/ ListModels(p)
        \/ ClearNames(p)
        \/ AppendRead(p)
        \/ AppendWrite(p)
        \/ ExactLoop(p)
        \/ SuffixLoop(p)

SpecCatalog == CatalogInit /\ [][CatalogNext]_vars

(***************************************************************************)
(* Metadata derived from a model name (GetModels and GetModelDetails)      *)
(***************************************************************************)
UpperCase == <<"A", "B", "C", "D", "E", "F", "G", "H", "I", "J", "K", "L",
               "M", "N", "O", "P", "Q", "R", "S", "T", "U", "V", "W", "X",
               "Y", "Z">>
LowerCase == <<"a", "b", "c", "d", "e", "f", "g", "h", "i", "j", "k", "l",
               "m", "n", "o", "p", "q", "r", "s", "t", "u", "v", "w", "x",
               "y", "z">>
\* the lower-case letter of each upper-case letter
LowerOf ==
    [c \in {UpperCase[k] : k \in 1..Len(UpperCase)} |->
        LowerCase[CHOOSE k \in 1..Len(UpperCase) : UpperCase[k] = c]]
LowerChar(c) == IF c \in DOMAIN LowerOf THEN LowerOf[c] ELSE c
\* strings.ToLower
ToLower(s) == [k \in 1..Len(s) |-> LowerChar(s[k])]

\* strings.Contains(s, pat)
Contains(s, pat) ==
    \E k \in 0..(Len(s) - Len(pat)) : SubSeq(s, k + 1, k + Len(pat)) = pat

\* parts := strings.Split(id, "/"); name := parts[len(parts)-1]
RECURSIVE LastSegmentFrom(_, _)
LastSegmentFrom(id, k) ==
    IF k = 0 THEN id
    ELSE IF id[k] = "/" THEN SubSeq(id, k + 1, Len(id))
    ELSE LastSegmentFrom(id, k - 1)
LastSegment(id) == LastSegmentFrom(id, Len(id))

\* strings.ToLower(id + " " + name)
NameToCheck(id, name) == ToLower(id \o <<" ">> \o name)

P70b == <<"7", "0", "b">>
P13b == <<"1", "3", "b">>
P3b == <<"3", "b">>
P1b == <<"1", "b">>
PLlama == <<"l", "l", "a", "m", "a">>
PMistral == <<"m", "i", "s", "t", "r", "a", "l">>
PGemma == <<"g", "e", "m", "m", "a">>
PClaude == <<"c", "l", "a", "u", "d", "e">>
PGpt == <<"g", "p", "t">>

\* a size cascade that tests "3b" before "13b"
ParameterSize3bFirst(check) ==
    IF Contains(check, P70b) THEN "70B"
    ELSE IF Contains(check, P3b) THEN "3B"
    ELSE IF Contains(check, P13b) THEN "13B"
    ELSE IF Contains(check, P1b) THEN "1B"
    ELSE "7B"

\* the parameterSize cascade
ParameterSize(check) ==
    IF Contains(check, P70b) THEN "70B"
    ELSE IF Contains(check, P13b) THEN "13B"
    ELSE IF Contains(check, P3b) THEN "3B"
    ELSE IF Contains(check, P1b) THEN "1B"
    ELSE "7B"

\* the family / architecture cascade
Family(check) ==
    IF Contains(check, PLlama) THEN "llama"
    ELSE IF Contains(check, PMistral) THEN "mistral"
    ELSE IF Contains(check, PGemma) THEN "gemma"
    ELSE IF Contains(check, PClaude) THEN "claude"
    ELSE IF Contains(check, PGpt) THEN "gpt"
    ELSE "transformer"

\* the Model GetModels builds for one apiModel.ID
ListedModel(id) ==
    [name |-> LastSegment(id),
     model |-> LastSegment(id),
     digest |-> <<"sha256", id>>,
     family |-> Family(NameToCheck(id, LastSegment(id))),
     parameter_size |-> ParameterSize(NameToCheck(id, LastSegment(id))),
     format |-> "gguf", quantization_level |-> "Q4_K_M",
     context_length |-> 200000]
\* var models []Model, one per entry of the response, in order
ListedModels(ids) == [k \in 1..Len(ids) |-> ListedModel(ids[k])]

(***************************************************************************)
(* SpecRequest: the HTTP handlers up to the point where streaming starts,  *)
(* one request at a time.  A handler is one step; `call` records the       *)
(* request, the snapshot it found, what it answered and the backend calls  *)
(* it made.                                                                *)
(***************************************************************************)
\* what client.ListModels returns: a response or an error
ListOutcomes ==
    {[ok |-> TRUE, models |-> c] : c \in UpstreamCatalogs \cup {<<>>}}
        \cup {[ok |-> FALSE, models |-> <<>>]}

QQ == <<"q">>
RequestModels == {<<>>, <<"a">>, XA, QQ}
StreamFlags == {"absent", "true", "false"}
MaxMessages == 1
\* the decoded request bodies, and the body that is not valid JSON
Requests ==
    [valid : {TRUE}, model : RequestModels, stream : StreamFlags,
     messages : 0..MaxMessages]
        \cup {[valid |-> FALSE, model |-> <<>>, stream |-> "absent",
               messages |-> 0]}

\* request.System and request.Prompt of POST /api/generate
SystemTexts == {"", "s"}
PromptTexts == {"", "p"}
Message(role, content) == [role |-> role, content |-> content]

\* a conversion that puts the system message in even when it is empty
PromptMessagesAlwaysSystem(system, prompt) ==
    <<Message("system", system), Message("user", prompt)>>

\* messages := []openai.ChatCompletionMessage{}; the system message is
\* appended if request.System != "", then the user message
PromptMessages(system, prompt) ==
    (IF system # "" THEN <<Message("system", system)>> ELSE <<>>)
        \o <<Message("user", prompt)>>

\* streamRequested := true; if request.Stream != nil { ... = *request.Stream }
StreamRequested(req) == req.stream # "false"

First(S) == CHOOSE k \in S : \A j \in S : k <= j

\* a GetModels that clears the shared storage before the list call
GetModelsClearFirst(names, o) ==
    IF ~o.ok
    THEN [names |-> <<>>, err |-> TRUE, models |-> <<>>]
    ELSE [names |-> StoreNames(o.models), err |-> FALSE,
          models |-> ListedModels(o.models)]

\* OpenrouterProvider.GetModels on the storage `names`
GetModels(names, o) ==
    IF ~o.ok
    THEN [names |-> names, err |-> TRUE, models |-> <<>>]
    ELSE [names |-> StoreNames(o.models), err |-> FALSE,
          models |-> ListedModels(o.models)]

\* a GetFullModelName that fetches on every call
GetFullModelNameRefetch(names, alias, o) ==
    IF GetModels(names, o).err
    THEN [names |-> GetModels(names, o).names, name |-> <<>>,
          err |-> TRUE, lists |-> 1]
    ELSE [names |-> GetModels(names, o).names,
          name |-> MatchName(GetModels(names, o).names, alias),
          err |-> FALSE, lists |-> 1]

\* OpenrouterProvider.GetFullModelName on the storage `names`
GetFullModelName(names, alias, o) ==
    LET g == GetModels(names, o)
    IN  IF Len(names) = 0
        THEN IF g.err
             THEN [names |-> g.names, name |-> <<>>, err |-> TRUE,
                   lists |-> 1]
             ELSE [names |-> g.names, name |-> MatchName(g.names, alias),
                   err |-> FALSE, lists |-> 1]
        ELSE [names |-> names, name |-> MatchName(names, alias),
              err |-> FALSE, lists |-> 0]

\* first loop of GetModelDetails: by the short name
ByShortName(models, modelName, full) ==
    {k \in 1..Len(models) :
        models[k].name = modelName \/ models[k].name = full}
\* second loop of GetModelDetails: by the full id in o.modelNames
ByFullID(names, models, modelName, full) ==
    {k \in 1..Len(names) :
        (names[k] = full \/ names[k] = modelName) /\ k <= Len(models)}

NoModelInfo == [found |-> FALSE]
ModelInfo(names, models, modelName, full) ==
    IF ByShortName(models, modelName, full) # {}
    THEN [found |-> TRUE,
          model |-> models[First(ByShortName(models, modelName, full))]]
    ELSE IF ByFullID(names, models, modelName, full) # {}
    THEN [found |-> TRUE,
          model |-> models[First(ByFullID(names, models, modelName, full))]]
    ELSE NoModelInfo

\* the map GetModelDetails returns for fullModelName and modelInfo
Details(modelName, full, info) ==
    [modelfile |-> <<modelName, full>>,
     family |-> Family(NameToCheck(full, info.name)),
     parameter_size |-> ParameterSize(NameToCheck(full, info.name)),
     format |-> "gguf", quantization_level |-> "Q4_K_M",
     context_length |-> info.context_length]

NoDetails == [found |-> FALSE]
\* OpenrouterProvider.GetModelDetails; o1 and o2 are what the list call
\* returns to GetFullModelName (if it fetches) and to GetModels
GetModelDetails(names, modelName, o1, o2) ==
    LET r == GetFullModelName(names, modelName, o1)
        g == GetModels(r.names, o2)
        info == ModelInfo(g.names, g.models, modelName, r.name)
    IN  IF r.err
        THEN [names |-> r.names, err |-> "model not found",
              lists |-> r.lists, failed |-> 1, details |-> NoDetails]
        ELSE IF g.err
        THEN [names |-> g.names, err |-> "failed to fetch model details",
              lists |-> r.lists + 1, failed |-> 1, details |-> NoDetails]
        ELSE IF ~info.found
        THEN [names |-> g.names, err |-> "model not found",
              lists |-> r.lists + 1, failed |-> 0, details |-> NoDetails]
        ELSE [names |-> g.names, err |-> "",
              lists |-> r.lists + 1, failed |-> 0,
              details |-> Details(modelName, r.name, info.model)]

\* what a handler leaves behind: the storage, the response, the resolved
\* name, and the numbers of list calls, failed list calls and chat calls
Answer(names, code, json, name, lists, failed, chats) ==
    [names |-> names, status |-> code, body |-> json, name |-> name,
     lists |-> lists, failed |-> failed, chats |-> chats]

\* GET /api/tags (with an empty MODEL_FILTER)
TagsAnswer(names, o) ==
    LET g == GetModels(names, o)
    IN  IF g.err
        THEN Answer(g.names, 500, ErrorBody("list"), <<>>, 1, 1, 0)
        ELSE Answer(g.names, 200,
                    [models |-> [k \in 1..Len(g.models) |-> g.models[k].name]],
                    <<>>, 1, 0, 0)

\* POST /api/show
ShowAnswer(names, req, o1, o2) ==
    LET d == GetModelDetails(names, req.model, o1, o2)
    IN  IF ~req.valid
        THEN Answer(names, 400, ErrorBody("Invalid JSON payload"),
                    <<>>, 0, 0, 0)
        ELSE IF req.model = <<>>
        THEN Answer(names, 400, ErrorBody("Model name is required"),
                    <<>>, 0, 0, 0)
        ELSE IF d.err # ""
        THEN Answer(d.names, 500, ErrorBody(d.err), <<>>, d.lists,
                    d.failed, 0)
        ELSE Answer(d.names, 200, d.details, <<>>, d.lists, 0, 0)

\* POST /api/generate up to the response of provider.Chat or to the open
\* stream; chatOk tells whether the chat-completion call succeeds
GenerateAnswer(names, req, o, chatOk) ==
    LET r == GetFullModelName(names, req.model, o)
    IN  IF ~req.valid
        THEN Answer(names, 400, ErrorBody("Invalid JSON payload"),
                    <<>>, 0, 0, 0)
        ELSE IF r.err
        THEN Answer(r.names, 500, ErrorBody("Model not found"),
                    <<>>, r.lists, 1, 0)
        ELSE IF ~chatOk
        THEN Answer(r.names, 500, ErrorBody("chat"), r.name, r.lists,
                    0, 1)
        ELSE IF ~StreamRequested(req)
        THEN Answer(r.names, 200, [model |-> r.name, done |-> TRUE],
                    r.name, r.lists, 0, 1)
        ELSE Answer(r.names, 200, [stream |-> r.name], r.name, r.lists,
                    0, 1)

\* the object both branches of the empty-messages case send
LoadBody(model) ==
    [model |-> model,
     message |-> [role |-> "assistant", content |-> ""],
     done |-> TRUE, done_reason |-> "load"]

\* an empty-messages branch placed after the name resolution
LoadAnswerResolved(names, req, o) ==
    LET r == GetFullModelName(names, req.model, o)
    IN  IF r.err
        THEN Answer(r.names, 500, ErrorBody("Model not found"),
                    <<>>, r.lists, 1, 0)
        ELSE Answer(r.names, 200, LoadBody(r.name), r.name, r.lists, 0, 0)

\* if len(request.Messages) == 0: c.JSON(200, ...) and return, with
\* streamRequested true or false; o is what a list call would return
LoadAnswer(names, req, o) ==
    Answer(names, 200, LoadBody(req.model), <<>>, 0, 0, 0)

\* POST /api/chat up to the response of provider.Chat or to the open stream
ChatAnswer(names, req, o1, o2, chatOk) ==
    LET r == GetFullModelName(names, req.model, o1)
        r2 == GetFullModelName(r.names, req.model, o2)
    IN  IF ~req.valid
        THEN Answer(names, 400, ErrorBody("Invalid JSON payload"),
                    <<>>, 0, 0, 0)
        ELSE IF req.messages = 0
        THEN LoadAnswer(names, req, o1)
        ELSE IF r.err
        THEN Answer(r.names, 500, ErrorBody("Model not found"),
                    <<>>, r.lists, 1, 0)
        ELSE IF ~StreamRequested(req)
        THEN IF ~chatOk
             THEN Answer(r.names, 500, ErrorBody("chat"), r.name, r.lists,
                    0, 1)
             ELSE Answer(r.names, 200, [model |-> r.name, done |-> TRUE],
                         r.name, r.lists, 0, 1)
        ELSE IF r2.err
        THEN Answer(r2.names, 404, ErrorBody("list"), <<>>,
                    r.lists + r2.lists, 1, 0)
        ELSE IF ~chatOk
        THEN Answer(r2.names, 500, ErrorBody("chat"), r2.name,
                    r.lists + r2.lists, 0, 1)
        ELSE Answer(r2.names, 200, [stream |-> r2.name], r2.name,
                    r.lists + r2.lists, 0, 1)

NoRequest ==
    [valid |-> TRUE, model |-> <<>>, stream |-> "absent", messages |-> 0]
Handled(op, req, before, a) ==
    [op |-> op, req |-> req, before |-> before, status |-> a.status,
     body |-> a.body, name |-> a.name, lists |-> a.lists,
     failed |-> a.failed, chats |-> a.chats]

HandleTags ==
    /\ \E o \in ListOutcomes :
          LET a == TagsAnswer(modelNames, o)
          IN  /\ modelNames' = a.names
              /\ call' = Handled("tags", NoRequest, modelNames, a)
    /\ UNCHANGED <<streamVars, upstream, proc>>

HandleShow ==
    /\ \E req \in Requests, o1 \in ListOutcomes, o2 \in ListOutcomes :
          LET a == ShowAnswer(modelNames, req, o1, o2)
          IN  /\ req.stream = "absent" /\ req.messages = 0
              /\ modelNames' = a.names
              /\ call' = Handled("show", req, modelNames, a)
    /\ UNCHANGED <<streamVars, upstream, proc>>

HandleGenerate ==
    /\ \E req \in Requests, system \in SystemTexts, prompt \in PromptTexts,
          o \in ListOutcomes, chatOk \in BOOLEAN :
          LET a == GenerateAnswer(modelNames, req, o, chatOk)
          IN  /\ req.messages = 0
              /\ ~req.valid => (system = "" /\ prompt = "")
              /\ modelNames' = a.names
              /\ call' = Handled("generate", req, modelNames, a)
                         @@ [system |-> system, prompt |-> prompt,
                             messages |-> IF req.valid
                                          THEN PromptMessages(system, prompt)
                                          ELSE <<>>]
    /\ UNCHANGED <<streamVars, upstream, proc>>

HandleChat ==
    /\ \E req \in Requests, o1 \in ListOutcomes, o2 \in ListOutcomes,
          chatOk \in BOOLEAN :
          LET a == ChatAnswer(modelNames, req, o1, o2, chatOk)
          IN  /\ modelNames' = a.names
              /\ call' = Handled("chat", req, modelNames, a)
    /\ UNCHANGED <<streamVars, upstream, proc>>

RequestInit ==
    /\ StreamIdle
    /\ modelNames = <<>>
    /\ upstream = <<>>
    /\ proc = <<>>
    /\ call = Handled("none", NoRequest, <<>>,
                      Answer(<<>>, 0, ErrorBody(""), <<>>, 0, 0, 0))

RequestNext ==
    \/ HandleTags
    \/ HandleShow
    \/ HandleGenerate
    \/ HandleChat

SpecRequest == RequestInit /\ [][RequestNext]_vars

(***************************************************************************)
(* SpecMetadata: the metadata GetModels and GetModelDetails derive for an  *)
(* identifier, for identifiers put together from the tested patterns,      *)
(* upper-case spellings and separators.  `upstream` is the catalog the     *)
(* backend lists; `call` holds the identifier and what each path returned. *)
(***************************************************************************)
\* tokens one identifier is put together from
MaxTokens == 2
Tokens ==
    {PLlama, PMistral, PGemma, PClaude, PGpt, P70b, P13b, P3b, P1b,
     <<"G", "P", "T">>, <<"L", "l", "a", "M", "a">>, <<"7", "0", "B">>,
     <<"1">>, <<"/">>}
RECURSIVE Concat(_)
Concat(ts) == IF ts = <<>> THEN <<>> ELSE Head(ts) \o Concat(Tail(ts))
\* "meta/llama-3-70b-instruct" and "acme/nano-1b"
ExampleLlama70b ==
    <<"m", "e", "t", "a", "/", "l", "l", "a", "m", "a", "-", "3", "-", "7",
      "0", "b", "-", "i", "n", "s", "t", "r", "u", "c", "t">>
ExampleNano1b ==
    <<"a", "c", "m", "e", "/", "n", "a", "n", "o", "-", "1", "b">>
MetadataIds ==
    ({Concat(ts) : ts \in SeqsUpTo(Tokens, MaxTokens)} \ {<<>>})
        \cup {ExampleLlama70b, ExampleNano1b}
\* another identifier with the same final segment
Decoy(id) == <<"x">> \o <<"/">> \o LastSegment(id)
MetadataCatalogs(id) == {<<id>>, <<Decoy(id), id>>, <<id, Decoy(id)>>}

NotDescribed == [err |-> "none"]

\* GET /api/tags
ListPath ==
    /\ call.listed = <<>>
    /\ LET g == GetModels(modelNames, [ok |-> TRUE, models |-> upstream])
       IN  /\ modelNames' = g.names
           /\ call' = [call EXCEPT !.listed = g.models]
    /\ UNCHANGED <<streamVars, upstream, proc>>

\* POST /api/show with the identifier or with its final segment
DescribePath ==
    /\ call.described = NotDescribed
    /\ \E alias \in {call.id, LastSegment(call.id)} :
          LET d == GetModelDetails(modelNames, alias,
                                   [ok |-> TRUE, models |-> upstream],
                                   [ok |-> TRUE, models |-> upstream])
          IN  /\ alias # <<>>
              /\ modelNames' = d.names
              /\ call' = [call EXCEPT !.described = d, !.alias = alias]
    /\ UNCHANGED <<streamVars, upstream, proc>>

MetadataInit ==
    /\ StreamIdle
    /\ modelNames = <<>>
    /\ proc = <<>>
    /\ \E id \in MetadataIds :
          /\ upstream \in MetadataCatalogs(id)
          /\ call = [id |-> id, alias |-> <<>>, listed |-> <<>>,
                     described |-> NotDescribed]

MetadataNext ==
    \/ ListPath
    \/ DescribePath

SpecMetadata == MetadataInit /\ [][MetadataNext]_vars

(***************************************************************************)
(* Spec: one streaming request from its arrival to the handler's return.   *)
(* `call` holds the request being served.                                  *)
(***************************************************************************)
\* what client.ListModels returns while the streaming request is resolved
StreamListOutcomes ==
    {[ok |-> TRUE, models |-> <<XA, YB>>], [ok |-> TRUE, models |-> <<>>],
     [ok |-> FALSE, models |-> <<>>]}

\* the requests that take the streaming path: stream not false and, for
\* /api/chat, at least one message
StreamingRequests(ep) ==
    {req \in Requests :
        /\ req.valid
        /\ req.model \in {<<"a">>, QQ}
        /\ req.stream = "absent"
        /\ req.messages = (IF ep = "chat" THEN 1 ELSE 0)}

\* fullModelName, err := provider.GetFullModelName(request.Model); on an
\* error c.JSON(http.StatusInternalServerError, ...)
ResolveModel ==
    /\ pc = "resolve"
    /\ \E o \in StreamListOutcomes :
          LET r == GetFullModelName(modelNames, call.req.model, o)
          IN  /\ modelNames' = r.names
              /\ IF r.err
                 THEN /\ pc' = "failed"
                      /\ status' = 500
                      /\ body' = ErrorBody("Model not found")
                      /\ UNCHANGED fullModelName
                 ELSE /\ pc' = IF endpoint = "chat" THEN "resolve2"
                                                    ELSE "open"
                      /\ fullModelName' = r.name
                      /\ UNCHANGED <<status, body>>
    /\ UNCHANGED <<upstream, proc, call, err, endpoint, received, response,
                   lastFinishReason, written, flushed, clientGot, connected,
                   streamOpen>>

\* POST /api/chat resolves the name a second time before ChatStream; on an
\* error c.JSON(http.StatusNotFound, ...)
ResolveAgain ==
    /\ pc = "resolve2"
    /\ \E o \in StreamListOutcomes :
          LET r == GetFullModelName(modelNames, call.req.model, o)
          IN  /\ modelNames' = r.names
              /\ IF r.err
                 THEN /\ pc' = "failed"
                      /\ status' = 404
                      /\ body' = ErrorBody("list")
                      /\ UNCHANGED fullModelName
                 ELSE /\ pc' = "open"
                      /\ fullModelName' = r.name
                      /\ UNCHANGED <<status, body>>
    /\ UNCHANGED <<upstream, proc, call, err, endpoint, received, response,
                   lastFinishReason, written, flushed, clientGot, connected,
                   streamOpen>>

StreamInit ==
    /\ endpoint \in {"generate", "chat"}
    /\ pc = "resolve"
    /\ fullModelName = <<>>
    /\ received = <<>>
    /\ response = NoResponse
    /\ err = "nil"
    /\ lastFinishReason = ""
    /\ written = <<>>
    /\ flushed = 0
    /\ clientGot = <<>>
    /\ connected = TRUE
    /\ streamOpen = FALSE
    /\ status = 0
    /\ body = NoBody

CatalogIdle ==
    /\ modelNames = <<>>
    /\ upstream = <<>>
    /\ proc = <<>>

Init ==
    /\ StreamInit
    /\ CatalogIdle
    /\ \E req \in StreamingRequests(endpoint) :
          call = [op |-> endpoint, req |-> req]

Next ==
    \/ ResolveModel
    \/ ResolveAgain
    \/ OpenStream
    \/ RecvResponse
    \/ RecvEOF
    \/ RecvError
    \/ Process
    \/ WriteIntermediate
    \/ FlushIntermediate
    \/ WriteError
    \/ FlushError
    \/ WriteFinal
    \/ FlushFinal
    \/ ClientDisconnect

Spec == Init /\ [][Next]_vars

(***************************************************************************)
(* SpecRefresh: one streaming request while another request replaces the   *)
(* catalog snapshot (a concurrent GET /api/tags, taken as one step here;   *)
(* its interleaving with readers is the subject of SpecCatalog).           *)
(***************************************************************************)
YA == <<"y", "/", "a">>
\* what the backend lists by the time of the concurrent call
RefreshedCatalog == <<YA, YB>>

\* GET /api/tags served by another goroutine: GetModels succeeds
ConcurrentRefresh ==
    /\ pc \in {"resolve2", "open"} \/ Running
    /\ modelNames # StoreNames(RefreshedCatalog)
    /\ modelNames' = StoreNames(RefreshedCatalog)
    /\ UNCHANGED <<streamVars, upstream, proc, call>>

RefreshInit ==
    /\ StreamInit
    /\ CatalogIdle
    /\ call = [op |-> endpoint,
               req |-> [valid |-> TRUE, model |-> <<"a">>,
                        stream |-> "absent",
                        messages |-> IF endpoint = "chat" THEN 1 ELSE 0]]

RefreshNext ==
    \/ ResolveModel
    \/ ResolveAgain
    \/ OpenStream
    \/ RecvResponse
    \/ RecvEOF
    \/ RecvError
    \/ Process
    \/ WriteIntermediate
    \/ FlushIntermediate
    \/ WriteError
    \/ FlushError
    \/ WriteFinal
    \/ FlushFinal
    \/ ClientDisconnect
    \/ ConcurrentRefresh

SpecRefresh == RefreshInit /\ [][RefreshNext]_vars

(***************************************************************************)
(* Properties of the streaming handlers                                    *)
(***************************************************************************)
NonTerminals(lines) == SelectSeq(lines, IsNonTerminal)
Terminals(lines) == SelectSeq(lines, IsTerminal)
HasNonEmptyDelta(resp) ==
    Len(resp.choices) > 0 /\ resp.choices[1].delta # ""
HasEmptyDelta(resp) ==
    Len(resp.choices) > 0 /\ resp.choices[1].delta = ""
IsPrefix(s, t) == Len(s) <= Len(t) /\ s = SubSeq(t, 1, Len(s))
\* some Flush did not reach the client
FlushFailed == Len(clientGot) < flushed

\* C1 as stated: a stream read through to end-of-stream has produced as
\* many non-terminal lines as it had responses with a non-empty text delta,
\* and then one terminal line.
C1_NonEmptyDeltasOnly ==
    pc = "done" =>
        /\ Len(NonTerminals(written))
             = Len(SelectSeq(received, HasNonEmptyDelta))
        /\ Len(Terminals(written)) = 1
        /\ IsTerminal(written[Len(written)])

\* C1 as amended: a stream read through to end-of-stream has produced one
\* non-terminal line per backend response received, whether its text delta
\* is empty or not, in the order received, and then exactly one terminal
\* line.
C1_OneLinePerResponse ==
    pc = "done" =>
        /\ Len(written) = Len(received) + 1
        /\ \A i \in 1..Len(received) :
              /\ IsNonTerminal(written[i])
              /\ TextOf(written[i]) = received[i].choices[1].delta
        /\ IsTerminal(written[Len(written)])
        /\ Len(Terminals(written)) = 1

C1_Witness ==
    /\ pc = "done"
    /\ Len(received) = 3
    /\ HasEmptyDelta(received[2])
    /\ HasNonEmptyDelta(received[1])
    /\ HasNonEmptyDelta(received[3])
    /\ received[1] # received[3]

C3_ErrorAfterK ==
    err = "error" =>
        /\ pc \in {"errwrite", "errflush", "aborted"}
        /\ Len(NonTerminals(written)) = Len(received)
        /\ \A i \in 1..Len(received) :
              /\ IsNonTerminal(written[i])
              /\ TextOf(written[i]) = received[i].choices[1].delta
        /\ Len(Terminals(written)) = 0
        /\ pc = "errwrite" => Len(written) = Len(received)
        /\ pc \in {"errflush", "aborted"} =>
              /\ Len(written) = Len(received) + 1
              /\ IsErrorLine(written[Len(written)])
        /\ pc = "aborted" => ~ENABLED Next

C3_Witness ==
    /\ pc = "aborted"
    /\ err = "error"
    /\ Len(received) = 2
    /\ Len(written) = 3

\* C4: once a flush to the client has failed, the handler receives nothing
\* more from the backend and writes nothing more.
C4_StopsOnWriteFailure ==
    [][FlushFailed => (received' = received /\ written' = written)]_vars

\* the finish reason the terminal line should carry: the last non-empty one
\* among the responses, "stop" when there is none
RECURSIVE LastFinishReasonOf(_)
LastFinishReasonOf(rs) ==
    IF rs = <<>> THEN "stop"
    ELSE LET r == rs[Len(rs)] IN
         IF Len(r.choices) > 0 /\ r.choices[1].finish # ""
         THEN r.choices[1].finish
         ELSE LastFinishReasonOf(SubSeq(rs, 1, Len(rs) - 1))

\* C5: on both endpoints the terminal line carries a finish reason, the
\* last non-empty one seen on the stream, or "stop" when none was seen.
C5_TerminalFinishReason ==
    pc = "done" =>
        /\ HasFinishReason(written[Len(written)])
        /\ written[Len(written)].finish_reason = LastFinishReasonOf(received)

\* C6: the k-th non-terminal line carries the text delta of the k-th
\* backend response, and a line is written and flushed before the next
\* response is received.
C6_OrderAndFlush ==
    /\ Len(NonTerminals(written)) <= Len(received)
    /\ \A k \in 1..Len(NonTerminals(written)) :
          /\ written[k] = NonTerminals(written)[k]
          /\ TextOf(written[k]) = received[k].choices[1].delta
    /\ pc = "recv" =>
          /\ Len(NonTerminals(written)) = Len(received)
          /\ flushed = Len(written)
    /\ pc = "process" =>
          /\ Len(NonTerminals(written)) = Len(received) - 1
          /\ flushed = Len(written)

C6_Witness ==
    /\ pc = "recv"
    /\ Len(received) = 2
    /\ HasNonEmptyDelta(received[1])
    /\ HasNonEmptyDelta(received[2])
    /\ received[1].choices[1].delta # received[2].choices[1].delta
    /\ flushed = 2

(***************************************************************************)
(* Properties of the catalog                                               *)
(***************************************************************************)
Entries(names) == {names[i] : i \in 1..Len(names)}
Matches(names, alias) ==
    \E e \in Entries(names) : HasSuffix(e, alias)
Quiescent == \A p \in Procs : proc[p].pc \in {"idle", "done"}
Resolved(p) ==
    proc[p].op = "resolve" /\ proc[p].pc = "done" /\ ~proc[p].err

\* C7: the loops of a resolve that runs while a fetch is in progress see a
\* complete snapshot (a list some fetch returned), never an empty or
\* partly filled one; so an alias that matches an entry of every snapshot
\* is resolved to a matching entry and not passed through.
C7_ReadersSeeCompleteSnapshots ==
    \A p \in Procs :
        Resolved(p) =>
            /\ \A k \in 1..Len(proc[p].seen) :
                  proc[p].seen[k] \in UpstreamCatalogs
            /\ (\A c \in UpstreamCatalogs : Matches(c, proc[p].alias))
                  => \E c \in UpstreamCatalogs :
                        /\ proc[p].name \in Entries(c)
                        /\ HasSuffix(proc[p].name, proc[p].alias)

\* C8: once every fetch has completed, the cached list is exactly the list
\* one fetch returned: nothing merged, duplicated or left over.
C8_SnapshotOfOneFetch ==
    (Quiescent /\ modelNames # <<>>) => modelNames \in UpstreamCatalogs

\* C9: an alias that is an entry of the snapshot resolves to itself, also
\* when an earlier entry ends with it.
C9_ExactMatchFirst ==
    (/\ call.op = "GetFullModelName"
     /\ ~call.err
     /\ call.alias \in Entries(modelNames))
        => call.name = call.alias

C9_Witness ==
    /\ call.op = "GetFullModelName"
    /\ ~call.err
    /\ call.name = call.alias
    /\ Len(modelNames) = 2
    /\ modelNames[2] = call.alias
    /\ modelNames[1] # call.alias
    /\ HasSuffix(modelNames[1], call.alias)
    /\ call.alias # <<>>

\* the entries an alias is a strict suffix of
StrictSuffixOf(names, alias) ==
    {e \in Entries(names) : HasSuffix(e, alias) /\ e # alias}

\* C10: an alias that is no entry of the snapshot and a strict suffix of
\* exactly one entry resolves to that entry.
C10_UniqueSuffixMatch ==
    (/\ call.op = "GetFullModelName"
     /\ ~call.err
     /\ call.alias \notin Entries(modelNames)
     /\ Cardinality(StrictSuffixOf(modelNames, call.alias)) = 1)
        => call.name \in StrictSuffixOf(modelNames, call.alias)

C10_Witness ==
    /\ call.op = "GetFullModelName"
    /\ ~call.err
    /\ call.alias = <<"a">>
    /\ Len(modelNames) = 2
    /\ ~HasSuffix(modelNames[1], call.alias)
    /\ modelNames[2] = <<"/", "a">>
    /\ call.name = <<"/", "a">>

\* C11 as stated: an alias that matches no entry of the snapshot is
\* returned unchanged and the call never returns an error.
C11_PassThroughNeverError ==
    (/\ call.op = "GetFullModelName"
     /\ ~Matches(modelNames, call.alias))
        => (~call.err /\ call.name = call.alias)

\* C11 as amended: an alias that matches no entry of the snapshot is
\* returned unchanged; the call returns an error only when the cache was
\* empty and the fetch it made failed, and the cache is then still empty.
C11_PassThroughUnlessFetchFails ==
    (/\ call.op = "GetFullModelName"
     /\ ~Matches(modelNames, call.alias))
        => /\ ~call.err => call.name = call.alias
           /\ call.err => modelNames = <<>>

C11_Witness ==
    /\ call.op = "GetFullModelName"
    /\ ~call.err
    /\ Len(modelNames) = 2
    /\ ~Matches(modelNames, call.alias)
    /\ call.alias # <<>>
    /\ call.name = call.alias

\* the positions of the entries that end with the alias
SuffixPositions(names, alias) ==
    {i \in 1..Len(names) : HasSuffix(names[i], alias)}
Least(S) == CHOOSE i \in S : \A j \in S : i <= j

\* C12: an alias that is no entry of the snapshot and a suffix of several
\* entries resolves to the one that comes first in the snapshot.
C12_FirstSuffixMatchWins ==
    (/\ call.op = "GetFullModelName"
     /\ ~call.err
     /\ call.alias \notin Entries(modelNames)
     /\ Cardinality(SuffixPositions(modelNames, call.alias)) >= 2)
        => call.name
             = modelNames[Least(SuffixPositions(modelNames, call.alias))]

C12_Witness ==
    /\ call.op = "GetFullModelName"
    /\ ~call.err
    /\ call.alias = <<"a">>
    /\ modelNames = << <<"/", "a">>, <<"a", "a">> >>
    /\ call.name = <<"/", "a">>

(***************************************************************************)
(* Properties of the handlers before streaming (SpecRequest)               *)
(***************************************************************************)
\* C13: a generate or chat request with an absent or empty model is answered
\* with a client error before any upstream call: no list call, no
\* chat-completion call, and no resolved model.
C13_EmptyModelRejected ==
    (/\ call.op \in {"generate", "chat"}
     /\ call.req.valid
     /\ call.req.model = <<>>)
        => /\ call.status = 400
           /\ call.lists = 0
           /\ call.chats = 0
           /\ call.name = <<>>

\* C15: when POST /api/show is asked for an alias that no entry of the
\* fetched catalog matches, the answer is a not-found response (404), not the
\* server error (500) used when the backend list call fails.
C15_ShowNotFoundIs404 ==
    (/\ call.op = "show"
     /\ call.req.valid
     /\ call.req.model # <<>>
     /\ call.failed = 0
     /\ ~Matches(modelNames, call.req.model))
        => call.status = 404

\* C16 as stated: describeModel, generate and chat leave a non-empty
\* snapshot exactly as they found it.
C16_OnlyFirstAccessOrTags ==
    (call.op \in {"show", "generate", "chat"} /\ call.before # <<>>)
        => modelNames = call.before

\* C16: generate and chat (that is, resolve) on a non-empty snapshot make no
\* list call and leave the snapshot as it was, while POST /api/show makes a
\* list call on every request that reaches GetModelDetails: the snapshot is
\* replaced only on first access, by /api/tags or by /api/show.
C16_OnlyFirstAccessTagsOrShow ==
    /\ (call.op \in {"generate", "chat"} /\ call.before # <<>>)
           => (modelNames = call.before /\ call.lists = 0)
    /\ (/\ call.op = "show" /\ call.before # <<>>
        /\ call.req.valid /\ call.req.model # <<>>)
           => call.lists = 1
    /\ modelNames # call.before
           => (call.op \in {"tags", "show"} \/ call.before = <<>>)
C16_Witness ==
    /\ call.op = "generate"
    /\ call.before = <<XA, YB>>
    /\ call.req.model = <<"a">>
    /\ call.name = XA
    /\ call.status = 200
    /\ modelNames = <<XA, YB>>

\* C17: when the backend list call errors, GetModels fails (/api/tags answers
\* with an error) and the snapshot is what it was before the call; a resolve
\* on an empty cache then returns the failure and no identifier, so that no
\* chat-completion call follows.
C17_FetchFailureKeepsSnapshot ==
    /\ (call.op \in {"tags", "generate", "chat"} /\ call.failed = 1)
           => /\ modelNames = call.before
              /\ call.status \in {500, 404}
              /\ DOMAIN call.body = {"error"}
    /\ (call.op \in {"generate", "chat"} /\ call.failed = 1)
           => /\ call.before = <<>>
              /\ call.name = <<>>
              /\ call.chats = 0
C17_Witness ==
    /\ call.op = "tags"
    /\ call.failed = 1
    /\ call.before = <<YB, XA>>
    /\ modelNames = <<YB, XA>>
    /\ call.status = 500

(***************************************************************************)
(* Properties of one streaming request from arrival to return (Spec)       *)
(***************************************************************************)
Returned == pc \in {"done", "aborted", "panicked", "failed"}

\* C14: once the backend stream has been opened, it is closed by the time
\* the handler returns, whichever way it returns: after end-of-stream, after
\* a backend error, after a fault, with the client connected or gone; while
\* the handler is still in its loop the stream is open.
C14_StreamClosedOnReturn ==
    /\ Returned => ~streamOpen
    /\ Running => streamOpen
C14_Witness ==
    /\ pc = "done"
    /\ ~connected
    /\ Len(received) = 2
    /\ ~streamOpen

\* C18: a request that fails before streaming starts (the catalog fetch of
\* the resolution fails, or the backend stream cannot be opened) is answered
\* with an error payload and a non-2xx status, no line of any kind is
\* written or delivered, no stream is open, and the handler has returned.
C18_PreStreamFailure ==
    pc = "failed" =>
        /\ status \in {404, 500}
        /\ "error" \in DOMAIN body
        /\ written = <<>>
        /\ clientGot = <<>>
        /\ received = <<>>
        /\ ~streamOpen
        /\ ~ENABLED Next
C18_Witness ==
    /\ pc = "failed"
    /\ endpoint = "chat"
    /\ fullModelName = XA
    /\ body = ErrorBody("chat")
    /\ status = 500

\* C19: once streaming has started, the handler returns only in DONE, after
\* end-of-stream and with the terminal event written, or in ABORTED, after a
\* backend error.
C19_ReturnsDoneOrAborted ==
    (status = 200 /\ ~Running) =>
        \/ /\ pc = "done"
           /\ err = "EOF"
           /\ Len(Terminals(written)) = 1
        \/ /\ pc = "aborted"
           /\ err = "error"

(***************************************************************************)
(* Properties of the derived metadata (SpecMetadata)                       *)
(***************************************************************************)
\* the rules as the specification lists them, in order
SizeRules ==
    << <<P70b, "70B">>, <<P13b, "13B">>, <<P3b, "3B">>, <<P1b, "1B">> >>
FamilyRules ==
    << <<PLlama, "llama">>, <<PMistral, "mistral">>, <<PGemma, "gemma">>,
       <<PClaude, "claude">>, <<PGpt, "gpt">> >>
\* pat occurs in text when the case of both is ignored
ContainsFold(text, pat) ==
    \E k \in 0..(Len(text) - Len(pat)) :
        \A j \in 1..Len(pat) : LowerChar(text[k + j]) = LowerChar(pat[j])
FirstMatch(rules, text, default) ==
    IF \E k \in 1..Len(rules) : ContainsFold(text, rules[k][1])
    THEN rules[Least({k \in 1..Len(rules) :
                         ContainsFold(text, rules[k][1])})][2]
    ELSE default
RuleText(id) == id \o <<" ">> \o LastSegment(id)
Described == call.described.err = ""
DescribedId == call.described.details.modelfile[2]

\* C20: the size class and the family of every listed model are the first
\* matching rule applied, ignoring case, to identifier + " " + final segment
\* (default 7B / transformer); the two examples get llama/70B and
\* transformer/1B; and what POST /api/show reports for an identifier is what
\* the list reports for that identifier.
C20_MetadataRules ==
    /\ \A k \in 1..Len(call.listed) :
          /\ call.listed[k].name = LastSegment(upstream[k])
          /\ call.listed[k].parameter_size =
                 FirstMatch(SizeRules, RuleText(upstream[k]), "7B")
          /\ call.listed[k].family =
                 FirstMatch(FamilyRules, RuleText(upstream[k]), "transformer")
          /\ upstream[k] = ExampleLlama70b =>
                 /\ call.listed[k].family = "llama"
                 /\ call.listed[k].parameter_size = "70B"
          /\ upstream[k] = ExampleNano1b =>
                 /\ call.listed[k].family = "transformer"
                 /\ call.listed[k].parameter_size = "1B"
    /\ Described =>
          /\ DescribedId \in Entries(upstream)
          /\ call.described.details.parameter_size =
                 FirstMatch(SizeRules, RuleText(DescribedId), "7B")
          /\ call.described.details.family =
                 FirstMatch(FamilyRules, RuleText(DescribedId), "transformer")
          /\ \A k \in 1..Len(call.listed) :
                upstream[k] = DescribedId =>
                    /\ call.described.details.family = call.listed[k].family
                    /\ call.described.details.parameter_size =
                           call.listed[k].parameter_size
C20_Witness ==
    /\ call.id = <<"L", "l", "a", "M", "a", "1", "3", "b">>
    /\ upstream = <<Decoy(call.id), call.id>>
    /\ Len(call.listed) = 2
    /\ Described
    /\ DescribedId = call.id
    /\ call.described.details.family = "llama"
    /\ call.described.details.parameter_size = "13B"
    /\ call.listed[2].family = "llama"
    /\ call.listed[2].parameter_size = "13B"

(***************************************************************************)
(* Properties of the request translation (SpecRequest)                     *)
(***************************************************************************)
\* C21: the message list POST /api/generate builds has a system message
\* holding the system text exactly when that text is non-empty, followed by
\* exactly one user message holding the prompt: its length is 1 or 2 and its
\* last element is the user message.
C21_PromptMessageList ==
    (call.op = "generate" /\ call.req.valid) =>
        /\ Len(call.messages) \in {1, 2}
        /\ call.messages[Len(call.messages)] = Message("user", call.prompt)
        /\ Len(call.messages) = 2 <=> call.system # ""
        /\ Len(call.messages) = 2 =>
               call.messages[1] = Message("system", call.system)
        /\ Cardinality({k \in 1..Len(call.messages) :
                           call.messages[k].role = "user"}) = 1
C21_Witness ==
    /\ call.op = "generate"
    /\ call.system = "s"
    /\ call.prompt = "p"
    /\ call.chats = 1
    /\ call.status = 200
    /\ call.messages = <<Message("system", "s"), Message("user", "p")>>

(***************************************************************************)
(* Properties of the streaming loop on any backend response (Spec)         *)
(***************************************************************************)
EmptyChoicesReceived ==
    \E k \in 1..Len(received) : Len(received[k].choices) = 0

\* C22: whatever responses the loop has received without error, a response
\* with an empty list of choices included, the handler has not faulted, and
\* once it has returned it is in DONE or ABORTED.
C22_EmptyChoicesNoFault ==
    EmptyChoicesReceived =>
        /\ pc # "panicked"
        /\ Returned => pc \in {"done", "aborted"}

(***************************************************************************)
(* Properties of a stream under a concurrent catalog refresh (SpecRefresh) *)
(***************************************************************************)
ModelLines == {k \in 1..Len(written) : "model" \in DOMAIN written[k]}

\* C23: every chunk and the final response written for one request carry
\* the model name the handler resolved before it opened the stream, and that
\* name does not change while the stream runs, also when the catalog
\* snapshot is replaced in the meantime.
C23_SameModelOnAllEvents ==
    /\ \A k \in ModelLines : written[k].model = fullModelName
    /\ (Running \/ Returned) /\ status = 200 => fullModelName # <<>>
C23_Witness ==
    /\ pc = "done"
    /\ fullModelName = XA
    /\ modelNames = RefreshedCatalog
    /\ MatchName(modelNames, call.req.model) = YA
    /\ Len(written) = 3
    /\ \A k \in 1..3 : written[k].model = XA

(***************************************************************************)
(* Properties of the empty-messages chat request (SpecRequest)             *)
(***************************************************************************)
\* C24: a chat request with an empty message list is answered, whether or
\* not streaming was requested, with one object that has done = true,
\* done_reason "load" and the model name as the client sent it; no list
\* call and no chat-completion call is made and the snapshot stays as it
\* was.
C24_EmptyMessagesLoad ==
    (call.op = "chat" /\ call.req.valid /\ call.req.messages = 0) =>
        /\ call.status = 200
        /\ call.body = LoadBody(call.req.model)
        /\ call.body.done = TRUE
        /\ call.body.done_reason = "load"
        /\ call.lists = 0
        /\ call.chats = 0
        /\ call.name = <<>>
        /\ modelNames = call.before
C24_Witness ==
    /\ call.op = "chat"
    /\ call.req.messages = 0
    /\ call.req.stream = "false"
    /\ call.req.model = <<"a">>
    /\ call.before = <<>>
    /\ modelNames = <<>>
    /\ call.body.model = <<"a">>
    /\ call.status = 200

(***************************************************************************)
(* Algebraic properties of the resolution (SpecResolve)                    *)
(***************************************************************************)
\* C25: on a non-empty snapshot, resolving the result of a resolution gives
\* that result again, and the result is an entry of the snapshot or the
\* alias itself.
C25_ResolveIdempotent ==
    (call.op = "GetFullModelName" /\ ~call.err /\ modelNames # <<>>) =>
        /\ MatchName(modelNames, call.name) = call.name
        /\ call.name \in Entries(modelNames) \/ call.name = call.alias
C25_Witness ==
    /\ call.op = "GetFullModelName"
    /\ ~call.err
    /\ call.alias = <<"a">>
    /\ modelNames = << <<"a", "a">>, <<"/", "a">> >>
    /\ call.name = <<"a", "a">>
    /\ MatchName(modelNames, call.name) = <<"a", "a">>

====
